---------------------------- MODULE Spec2Model ----------------------------
(***************************************************************************)
(* Model of the web-page semantic search backend:                          *)
(*   backend/app/main_standalone.py  (in-process list store)               *)
(*   backend/app/main.py             (external vector database)            *)
(*                                                                         *)
(* A text is a sequence of whitespace-separated fields.  A field k >= 1    *)
(* is the word k; the field 0 is an empty field, i.e. a run of surplus     *)
(* whitespace.  A chunk (" ".join of words) is the sequence of its words.  *)
(***************************************************************************)
EXTENDS Integers, Sequences, FiniteSets, TLC

\* ------------------------------------------------------------- bounds
NumWords == 2          \* distinct words of the vocabulary
MaxTextLen == 4        \* fields of a text handed to chunk_text directly
MaxCost == 2           \* sub-word tokens of one word (direct chunk_text calls)
MaxTokens == 2         \* largest max_tokens argument tried
MaxOverlap == 2        \* largest overlap_words argument tried
MaxStore == 3          \* entries of a store handed to search_chunks directly
NumUrls == 2           \* distinct request URLs
NumRequests == 3       \* POST /api/search requests of one run
MaxInFlight == 2       \* requests that the server's thread pool runs at the same time
MaxNodes == 2          \* nodes of a fetched HTML page
HeavyCost == 300       \* sub-word tokens of a long word (an unbroken string)

\* ------------------------------------------------------ program constants
SearchMaxTokens == 500    \* search: chunk_text(text, max_tokens=500, ...)
SearchOverlapWords == 50  \* search: chunk_text(..., overlap_words=50)
SearchLimit == 10         \* search: search_chunks(request.query, limit=10)

WordIds == 1..NumWords
Fields == 0..NumWords
Urls == 1..NumUrls
Requests == 1..NumRequests

VARIABLES
    tokenizer,      \* tokenizer: word -> number of sub-word tokens, len(tokenizer.tokenize(w))
    ck_text,        \* chunk_text call: argument text
    ck_max_tokens,  \* chunk_text call: argument max_tokens
    ck_overlap,     \* chunk_text call: argument overlap_words
    ck_state,       \* "call" before the call, "returned" after it
    ck_chunks,      \* chunk_text call: returned list of chunks
    ck_db_state,    \* chunk_text of main.py on the same text: "call", "returned"
    ck_db_chunks,   \* chunk_text of main.py: returned list of chunks
    chunks_store,   \* the list bound to the global chunks_store (in-process store)
    sq_query_vec,   \* search_chunks call: embedder.encode(query)
    sq_limit,       \* search_chunks call: argument limit
    sq_state,       \* "call" before the call, "returned" after it
    sq_results,     \* search_chunks call: returned list of ChunkResult
    app,            \* the server that runs: "standalone" (main_standalone.py) or "weaviate" (main.py)
    req,            \* per request: the position and the locals of its search() call
    raced,          \* history: two index_chunks calls have been in progress together
    db_objects      \* main.py: the objects of the HtmlChunk collection

ckVars == <<ck_text, ck_max_tokens, ck_overlap, ck_state, ck_chunks, ck_db_state, ck_db_chunks>>
sqVars == <<sq_query_vec, sq_limit, sq_state, sq_results>>
rqVars == <<app, req, raced, db_objects>>
vars == <<tokenizer, ckVars, chunks_store, sqVars, rqVars>>

\* ------------------------------------------------------------- helpers
RECURSIVE SeqsUpTo(_, _)
SeqsUpTo(S, n) ==
    IF n = 0 THEN {<<>>}
    ELSE LET shorter == SeqsUpTo(S, n - 1)
         IN shorter \cup {Append(s, x) : s \in {t \in shorter : Len(t) = n - 1}, x \in S}

Count(seq, x) == Cardinality({i \in 1..Len(seq) : seq[i] = x})

\* text.split(): the words of the text, whitespace dropped
split(text) == SelectSeq(text, LAMBDA f : f # 0)

\* sum(len(tokenizer.tokenize(w)) for w in ws)
RECURSIVE TokenSum(_)
TokenSum(ws) == IF ws = <<>> THEN 0 ELSE tokenizer[Head(ws)] + TokenSum(Tail(ws))

\* the Python slice s[-n:] for n >= 0; s[-0:] is s[0:], the whole list
SliceLast(s, n) ==
    IF n = 0 \/ n >= Len(s) THEN s ELSE SubSeq(s, Len(s) - n + 1, Len(s))

\* ------------------------------------------------ chunk_text (overlapping)
\* Loop state of chunk_text: the chunks so far, current_chunk, token_count.
ChunkInit == [chunks |-> <<>>, current_chunk |-> <<>>, token_count |-> 0]

\* Mutant: the word that closes a chunk is not carried into the next chunk.
ChunkWord_DropsWord(st, word, max_tokens, overlap_words) ==
    LET word_token_count == tokenizer[word] IN
    IF st.token_count + word_token_count > max_tokens /\ st.current_chunk # <<>>
    THEN [chunks |-> Append(st.chunks, st.current_chunk),
          current_chunk |-> <<>>, token_count |-> 0]
    ELSE [chunks |-> st.chunks,
          current_chunk |-> Append(st.current_chunk, word),
          token_count |-> st.token_count + word_token_count]

\* One iteration of the for loop over the words.
ChunkWord(st, word, max_tokens, overlap_words) ==
    LET word_token_count == tokenizer[word]
        closes == st.token_count + word_token_count > max_tokens
                  /\ st.current_chunk # <<>>
        keeps == Len(st.current_chunk) > overlap_words
        seed == IF ~closes THEN st.current_chunk
                ELSE IF keeps THEN SliceLast(st.current_chunk, overlap_words)
                ELSE <<>>
        seed_count == IF ~closes THEN st.token_count
                      ELSE IF keeps THEN TokenSum(seed)
                      ELSE 0
    IN [chunks |-> IF closes THEN Append(st.chunks, st.current_chunk) ELSE st.chunks,
        current_chunk |-> Append(seed, word),
        token_count |-> seed_count + word_token_count]

RECURSIVE ChunkLoop(_, _, _, _)
ChunkLoop(st, words, max_tokens, overlap_words) ==
    IF words = <<>> THEN st
    ELSE ChunkLoop(ChunkWord(st, Head(words), max_tokens, overlap_words),
                   Tail(words), max_tokens, overlap_words)

\* Mutant: the final "if current_chunk" is dropped, the last candidate is
\* appended even when it is empty.
chunk_text_AlwaysFlushes(text, max_tokens, overlap_words) ==
    LET st == ChunkLoop(ChunkInit, split(text), max_tokens, overlap_words)
    IN Append(st.chunks, st.current_chunk)

chunk_text(text, max_tokens, overlap_words) ==
    LET st == ChunkLoop(ChunkInit, split(text), max_tokens, overlap_words)
    IN IF st.current_chunk # <<>> THEN Append(st.chunks, st.current_chunk)
       ELSE st.chunks

\* ------------------------------------------------ chunk_text (main.py)
\* One iteration of the for loop of the non-overlapping chunk_text.
ChunkWordDb(st, word, max_tokens) ==
    LET token_len == tokenizer[word] IN
    IF st.token_count + token_len > max_tokens /\ st.current_chunk # <<>>
    THEN [chunks |-> Append(st.chunks, st.current_chunk),
          current_chunk |-> <<word>>, token_count |-> token_len]
    ELSE [chunks |-> st.chunks,
          current_chunk |-> Append(st.current_chunk, word),
          token_count |-> st.token_count + token_len]

RECURSIVE ChunkLoopDb(_, _, _)
ChunkLoopDb(st, words, max_tokens) ==
    IF words = <<>> THEN st
    ELSE ChunkLoopDb(ChunkWordDb(st, Head(words), max_tokens), Tail(words), max_tokens)

chunk_text_db(text, max_tokens) ==
    LET st == ChunkLoopDb(ChunkInit, split(text), max_tokens)
    IN IF st.current_chunk # <<>> THEN Append(st.chunks, st.current_chunk)
       ELSE st.chunks

\* ------------------------------------------- direct calls of chunk_text
\* no direct call of chunk_text is made
ChunkIdle ==
    /\ ck_text = <<>> /\ ck_max_tokens = 0 /\ ck_overlap = 0
    /\ ck_state = "none" /\ ck_chunks = <<>>
    /\ ck_db_state = "none" /\ ck_db_chunks = <<>>

\* no direct call of search_chunks is made
SearchIdle ==
    /\ sq_query_vec = <<>> /\ sq_limit = 0 /\ sq_state = "none" /\ sq_results = <<>>

\* no request is served
PipelineIdle == app = "none" /\ req = <<>> /\ raced = FALSE /\ db_objects = <<>>

InitChunk ==
    /\ tokenizer \in [WordIds -> 0..MaxCost]
    /\ chunks_store = <<>>
    /\ SearchIdle
    /\ PipelineIdle
    /\ ck_text \in SeqsUpTo(Fields, MaxTextLen)
    /\ ck_max_tokens \in (0 - 1)..MaxTokens
    /\ ck_overlap \in 0..MaxOverlap
    /\ ck_state = "call"
    /\ ck_chunks = <<>>
    /\ ck_db_state = "call"
    /\ ck_db_chunks = <<>>

\* chunk_text(text, max_tokens, overlap_words) of main_standalone.py is called
CallChunkText ==
    /\ ck_state = "call"
    /\ ck_chunks' = chunk_text(ck_text, ck_max_tokens, ck_overlap)
    /\ ck_state' = "returned"
    /\ UNCHANGED <<tokenizer, ck_text, ck_max_tokens, ck_overlap, ck_db_state,
                   ck_db_chunks, chunks_store, sqVars, rqVars>>

\* chunk_text(text, max_tokens) of main.py is called on the same text
CallChunkTextDb ==
    /\ ck_db_state = "call"
    /\ ck_db_chunks' = chunk_text_db(ck_text, ck_max_tokens)
    /\ ck_db_state' = "returned"
    /\ UNCHANGED <<tokenizer, ck_text, ck_max_tokens, ck_overlap, ck_state,
                   ck_chunks, chunks_store, sqVars, rqVars>>

NextChunk == CallChunkText \/ CallChunkTextDb

SpecChunk == InitChunk /\ [][NextChunk]_vars

\* ------------------------------------------------ search_chunks (in-process)
\* Embedding vectors.  all-MiniLM-L6-v2 returns 384 floats of non-zero norm;
\* the model uses integer vectors of two components.
Vectors == {<<1, 0>>, <<0, 1>>, <<1, 1>>, <<0 - 1, 1>>}

\* np.dot(a, b)
Dot(a, b) == a[1] * b[1] + a[2] * b[2]

\* The cosine similarity np.dot(q, v) / (norm(q) * norm(v)) is kept exactly, as
\* the pair (dot, nn) that stands for dot / sqrt(nn), nn = (q.q) * (v.v).  When
\* q or v is the zero vector the pair is (0, 0): numpy divides 0.0 by 0.0 and
\* gives nan (with a RuntimeWarning, no exception), and float(nan) is nan.
Similarity(query_vec, chunk_vec) ==
    [dot |-> Dot(query_vec, chunk_vec),
     nn |-> Dot(query_vec, query_vec) * Dot(chunk_vec, chunk_vec)]

Abs(x) == IF x < 0 THEN 0 - x ELSE x

\* a < b for two scores: dot/sqrt(nn) compared through its signed square
ScoreLess(a, b) == a.dot * Abs(a.dot) * b.nn < b.dot * Abs(b.dot) * a.nn

\* the dict appended to matches for one stored item
Match(item, query_vec) ==
    [content |-> item.content, url |-> item.url,
     score |-> Similarity(query_vec, item.vector)]

\* the matches of all stored items, in storage order
RECURSIVE Matches(_, _)
Matches(store, query_vec) ==
    IF store = <<>> THEN <<>>
    ELSE <<Match(Head(store), query_vec)>> \o Matches(Tail(store), query_vec)

\* Mutant: reverse=True forgotten, the sort is ascending.
RECURSIVE InsertSorted_Ascending(_, _)
InsertSorted_Ascending(sorted, m) ==
    IF sorted = <<>> THEN <<m>>
    ELSE IF ScoreLess(m.score, Head(sorted).score) THEN <<m>> \o sorted
    ELSE <<Head(sorted)>> \o InsertSorted_Ascending(Tail(sorted), m)

\* list.sort(key=score, reverse=True) is a stable descending sort: a match
\* goes in front of the first match of strictly smaller score.
RECURSIVE InsertSorted(_, _)
InsertSorted(sorted, m) ==
    IF sorted = <<>> THEN <<m>>
    ELSE IF ScoreLess(Head(sorted).score, m.score) THEN <<m>> \o sorted
    ELSE <<Head(sorted)>> \o InsertSorted(Tail(sorted), m)

\* Mutant: the matches are inserted last one first, so that matches of equal
\* score come out in reverse storage order.
RECURSIVE SortMatches_TiesReversed(_, _)
SortMatches_TiesReversed(done, todo) ==
    IF todo = <<>> THEN done
    ELSE SortMatches_TiesReversed(InsertSorted(done, todo[Len(todo)]),
                                  SubSeq(todo, 1, Len(todo) - 1))

RECURSIVE SortMatches(_, _)
SortMatches(done, todo) ==
    IF todo = <<>> THEN done
    ELSE SortMatches(InsertSorted(done, Head(todo)), Tail(todo))

\* the Python slice s[:n] for n >= 0
SliceFirst(s, n) == SubSeq(s, 1, IF n < Len(s) THEN n ELSE Len(s))

\* search_chunks, given the encoded query
search_chunks(store, query_vec, limit) ==
    IF store = <<>> THEN <<>>
    ELSE SliceFirst(SortMatches(<<>>, Matches(store, query_vec)), limit)

\* ---------------------------------------- direct calls of search_chunks
\* stored items of one page: one-word chunks with any embedding vector
SearchItems == {[content |-> <<w>>, url |-> 1, vector |-> v] : w \in WordIds, v \in Vectors}

InitSearch ==
    /\ tokenizer \in [WordIds -> {1}]
    /\ ChunkIdle
    /\ PipelineIdle
    /\ chunks_store \in SeqsUpTo(SearchItems, MaxStore)
    /\ sq_query_vec \in Vectors
    /\ sq_limit \in 0..(MaxStore + 1)
    /\ sq_state = "call"
    /\ sq_results = <<>>

\* Mutant: search_chunks raises on an empty store instead of returning [].
CallSearchChunks_RaisesOnEmpty ==
    /\ sq_state = "call"
    /\ sq_results' = search_chunks(chunks_store, sq_query_vec, sq_limit)
    /\ sq_state' = IF chunks_store = <<>> THEN "raised" ELSE "returned"
    /\ UNCHANGED <<tokenizer, ckVars, chunks_store, sq_query_vec, sq_limit, rqVars>>

\* search_chunks(query, limit) is called
CallSearchChunks ==
    /\ sq_state = "call"
    /\ sq_results' = search_chunks(chunks_store, sq_query_vec, sq_limit)
    /\ sq_state' = "returned"
    /\ UNCHANGED <<tokenizer, ckVars, chunks_store, sq_query_vec, sq_limit, rqVars>>

NextSearch == CallSearchChunks

SpecSearch == InitSearch /\ [][NextSearch]_vars

\* Direct calls of search_chunks where the query vector or stored vectors may
\* have zero magnitude.
ZeroVector == <<0, 0>>
SearchItemsZero ==
    {[content |-> <<w>>, url |-> 1, vector |-> v] :
        w \in WordIds, v \in Vectors \cup {ZeroVector}}

InitSearchZero ==
    /\ tokenizer \in [WordIds -> {1}]
    /\ ChunkIdle
    /\ PipelineIdle
    /\ chunks_store \in SeqsUpTo(SearchItemsZero, MaxStore)
    /\ sq_query_vec \in Vectors \cup {ZeroVector}
    /\ sq_limit \in 0..(MaxStore + 1)
    /\ sq_state = "call"
    /\ sq_results = <<>>

SpecSearchZero == InitSearchZero /\ [][NextSearch]_vars

\* ------------------------------------------------ fetch, clean_html, encode
\* A fetched page: a sequence of elements, each with a tag and one text node.
\* The text node is a word, or 0 for a node of whitespace only.
HtmlNodes == {[tag |-> "p", text |-> f] : f \in Fields}
                 \cup {[tag |-> "script", text |-> 1]}
Pages == SeqsUpTo(HtmlNodes, MaxNodes)

\* clean_html: script, style and noscript elements are removed; get_text(
\* separator=" ", strip=True) joins the stripped, non-empty text nodes.
RECURSIVE clean_html(_)
clean_html(html) ==
    IF html = <<>> THEN <<>>
    ELSE LET node == Head(html)
             kept == node.tag \notin {"script", "style", "noscript"} /\ node.text # 0
         IN (IF kept THEN <<node.text>> ELSE <<>>) \o clean_html(Tail(html))

\* embedder.encode: a deterministic function of the text with a non-zero value
\* on every non-empty text; here the counts of word 1 and of the other words.
encode(ws) == <<Count(ws, 1), Len(ws) - Count(ws, 1)>>

\* the ways requests.get / raise_for_status fail
FetchErrors == {"timeout", "http_error", "error"}

\* ------------------------------------------------ search(): one request
Apps == {"standalone", "weaviate"}

NoIterator == [live |-> FALSE, snap |-> <<>>]
LiveIterator == [live |-> TRUE, snap |-> <<>>]

\* A request that has not arrived yet.
\*   src, it: the list iterator of the running loop over chunks_store: the list
\*            it walks (the list bound to chunks_store, or the frozen contents
\*            of a list that has been unbound since) and its index
\*   acc:     the list the comprehension of index_chunks is building
\*   stages, store0, before, done0: history (stages run, the two stores when
\*            the request arrived, chunks_store when index_chunks was entered,
\*            URLs whose indexing had returned when search_chunks was entered)
NewRequest ==
    [pc |-> "Fetching", url |-> 0, html |-> <<>>, text |-> <<>>,
     chunks |-> <<>>, src |-> NoIterator, it |-> 0, acc |-> <<>>,
     query_vec |-> <<>>, matches |-> <<>>, results |-> <<>>,
     status |-> 0, detail |-> "", stages |-> <<>>,
     store0 |-> <<>>, before |-> <<>>, done0 |-> {}]

IndexPcs == {"Filtering", "Rebinding", "Appending"}
AfterIndexPcs == {"SearchEntry", "QueryEmbedding", "Ranking", "Responding", "Responded"}
InFlight(r) == req[r].pc \notin {"Fetching", "Responded", "Failed"}

\* the list a request's iterator walks
IterList(q) == IF q.src.live THEN chunks_store ELSE q.src.snap

\* raise HTTPException(status_code=...), or an exception search() lets through
Fail(q, status, detail) ==
    [q EXCEPT !.pc = "Failed", !.status = status, !.detail = detail,
              !.html = <<>>, !.text = <<>>, !.src = NoIterator, !.it = 0, !.acc = <<>>]

\* search(): the request arrives and the page is fetched (requests.get,
\* raise_for_status); every failure is a 400.  At most cap requests are served
\* at a time; requests arrive in the order of their numbers.
Fetch(r, cap) ==
    /\ req[r].pc = "Fetching"
    /\ IF r = 1 THEN TRUE ELSE req[r - 1].pc # "Fetching"
    /\ Cardinality({q \in Requests : InFlight(q)}) < cap
    /\ \E url \in Urls :
        LET q == [req[r] EXCEPT !.url = url, !.stages = <<"fetch">>,
                                !.store0 = <<chunks_store, db_objects>>] IN
        \/ \E err \in FetchErrors :
              req' = [req EXCEPT ![r] =
                        Fail(q, 400, IF app = "standalone" THEN err ELSE "error")]
        \/ \E html \in Pages :
              req' = [req EXCEPT ![r] = [q EXCEPT !.pc = "Normalizing", !.html = html]]
    /\ UNCHANGED <<tokenizer, ckVars, chunks_store, sqVars, app, raced, db_objects>>

\* the items of list whose url is not url
RECURSIVE OtherUrls(_, _)
OtherUrls(list, url) ==
    IF list = <<>> THEN <<>>
    ELSE (IF Head(list).url # url THEN <<Head(list)>> ELSE <<>>)
             \o OtherUrls(Tail(list), url)

\* Mutant: a page without text has the chunks of its URL purged from the store
\* before the 400 is raised.
Normalize_PurgesUrl(r) ==
    /\ req[r].pc = "Normalizing"
    /\ LET q == [req[r] EXCEPT !.stages = Append(@, "normalize")]
           text == clean_html(q.html)
       IN /\ req' = [req EXCEPT ![r] =
                       IF text = <<>> THEN Fail(q, 400, "no_text")
                       ELSE [q EXCEPT !.pc = "Chunking", !.text = text, !.html = <<>>]]
          /\ chunks_store' = IF text = <<>> THEN OtherUrls(chunks_store, q.url)
                             ELSE chunks_store
          /\ db_objects' = IF text = <<>> THEN OtherUrls(db_objects, q.url)
                           ELSE db_objects
    /\ UNCHANGED <<tokenizer, ckVars, sqVars, app, raced>>

\* search(): text = clean_html(resp.text); an empty text is a 400.
Normalize(r) ==
    /\ req[r].pc = "Normalizing"
    /\ LET q == [req[r] EXCEPT !.stages = Append(@, "normalize")]
           text == clean_html(q.html)
       IN req' = [req EXCEPT ![r] =
                    IF text = <<>> THEN Fail(q, 400, "no_text")
                    ELSE [q EXCEPT !.pc = "Chunking", !.text = text, !.html = <<>>]]
    /\ UNCHANGED <<tokenizer, ckVars, chunks_store, sqVars, app, raced, db_objects>>

\* search(): chunks = chunk_text(text, ...); an empty chunk list is a 400.
Chunk(r) ==
    /\ req[r].pc = "Chunking"
    /\ LET q == [req[r] EXCEPT !.stages = Append(@, "chunk")]
           chunks == IF app = "standalone"
                     THEN chunk_text(q.text, SearchMaxTokens, SearchOverlapWords)
                     ELSE chunk_text_db(q.text, SearchMaxTokens)
       IN req' = [req EXCEPT ![r] =
                    IF chunks = <<>> THEN Fail(q, 400, "no_chunks")
                    ELSE [q EXCEPT !.pc = "Indexing", !.chunks = chunks, !.text = <<>>]]
    /\ UNCHANGED <<tokenizer, ckVars, chunks_store, sqVars, app, raced, db_objects>>

\* ------------------------------------------------ index_chunks (in-process)
\* index_chunks is entered: the comprehension opens an iterator on the list
\* bound to chunks_store.
IndexBegin(r) ==
    /\ req[r].pc = "Indexing" /\ app = "standalone"
    /\ req' = [req EXCEPT ![r] =
                 [@ EXCEPT !.pc = "Filtering", !.src = LiveIterator, !.it = 0,
                           !.acc = <<>>, !.before = chunks_store,
                           !.stages = Append(@, "index")]]
    /\ raced' = (raced \/ \E q \in Requests \ {r} : req[q].pc \in IndexPcs)
    /\ UNCHANGED <<tokenizer, ckVars, chunks_store, sqVars, app, db_objects>>

\* Mutant: the comprehension keeps every item (no old chunk is cleared).
FilterItem_KeepsAll(acc, item, url) == Append(acc, item)

\* one item of [item for item in chunks_store if item["url"] != url]
FilterItem(acc, item, url) == IF item.url # url THEN Append(acc, item) ELSE acc

\* One step of the comprehension's iterator; when it is exhausted the new list
\* is ready to be bound.
FilterStep(r) ==
    /\ req[r].pc = "Filtering"
    /\ LET q == req[r]
           list == IterList(q)
       IN req' = [req EXCEPT ![r] =
                    IF q.it < Len(list)
                    THEN [q EXCEPT !.it = q.it + 1,
                                   !.acc = FilterItem(q.acc, list[q.it + 1], q.url)]
                    ELSE [q EXCEPT !.pc = "Rebinding", !.src = NoIterator, !.it = 0]]
    /\ UNCHANGED <<tokenizer, ckVars, chunks_store, sqVars, app, raced, db_objects>>

\* an iterator that walks the list being unbound keeps that list
Unbound(q, old) ==
    IF q.pc \in {"Filtering", "Ranking"} /\ q.src.live
    THEN [q EXCEPT !.src = [live |-> FALSE, snap |-> old]]
    ELSE q

\* chunks_store = <the new list>: the global is bound to the filtered list.
Rebind(r) ==
    /\ req[r].pc = "Rebinding"
    /\ chunks_store' = req[r].acc
    /\ req' = [q \in Requests |->
                 IF q = r THEN [req[r] EXCEPT !.pc = "Appending", !.acc = <<>>, !.it = 0]
                 ELSE Unbound(req[q], chunks_store)]
    /\ UNCHANGED <<tokenizer, ckVars, sqVars, app, raced, db_objects>>

\* the dict index_chunks stores for a chunk
StoredItem(url, chunk) == [content |-> chunk, url |-> url, vector |-> encode(chunk)]

\* for chunk in chunks: embedding = embedder.encode(chunk);
\* chunks_store.append({...}), on the list bound to chunks_store at that time.
AppendStep(r) ==
    /\ req[r].pc = "Appending"
    /\ LET q == req[r] IN
          /\ chunks_store' = Append(chunks_store, StoredItem(q.url, q.chunks[q.it + 1]))
          /\ req' = [req EXCEPT ![r] =
                       IF q.it + 1 < Len(q.chunks) THEN [q EXCEPT !.it = q.it + 1]
                       ELSE [q EXCEPT !.pc = "SearchEntry", !.it = 0]]
    /\ UNCHANGED <<tokenizer, ckVars, sqVars, app, raced, db_objects>>

\* Mutant: when embedder.encode raises, search() calls index_chunks again.
EncodeRaises_Retries(r) ==
    /\ req[r].pc = "Appending"
    /\ req' = [req EXCEPT ![r] = [@ EXCEPT !.pc = "Indexing", !.it = 0]]
    /\ UNCHANGED <<tokenizer, ckVars, chunks_store, sqVars, app, raced, db_objects>>

\* embedder.encode(chunk) raises: the exception leaves index_chunks and
\* search(), the request ends with a 500.
EncodeRaises(r) ==
    /\ req[r].pc = "Appending"
    /\ req' = [req EXCEPT ![r] = Fail(req[r], 500, "encode")]
    /\ UNCHANGED <<tokenizer, ckVars, chunks_store, sqVars, app, raced, db_objects>>

\* ------------------------------------------------ search_chunks (in-process)
\* if not chunks_store: return []
SearchEntry(r) ==
    /\ req[r].pc = "SearchEntry"
    /\ LET q == [req[r] EXCEPT
                    !.done0 = {req[p].url : p \in {p \in Requests :
                                                     req[p].pc \in AfterIndexPcs}}]
       IN req' = [req EXCEPT ![r] =
                    IF chunks_store = <<>>
                    THEN [q EXCEPT !.pc = "Responding", !.results = <<>>,
                                   !.stages = Append(q.stages, "rank")]
                    ELSE [q EXCEPT !.pc = "QueryEmbedding"]]
    /\ UNCHANGED <<tokenizer, ckVars, chunks_store, sqVars, app, raced, db_objects>>

\* query_vec = embedder.encode(query); the for loop opens its iterator on the
\* list bound to chunks_store.  The query of the request is chosen here, where
\* it is first read.
EmbedQuery(r) ==
    /\ req[r].pc = "QueryEmbedding" /\ app = "standalone"
    /\ \E w \in WordIds :
          req' = [req EXCEPT ![r] =
                    [@ EXCEPT !.pc = "Ranking", !.query_vec = encode(<<w>>),
                              !.src = LiveIterator, !.it = 0, !.matches = <<>>,
                              !.stages = Append(@, "embed_query")]]
    /\ UNCHANGED <<tokenizer, ckVars, chunks_store, sqVars, app, raced, db_objects>>

\* for item in chunks_store: one step of the iterator; when it is exhausted
\* the matches are sorted and cut at limit.
ScanStep(r) ==
    /\ req[r].pc = "Ranking"
    /\ LET q == req[r]
           list == IterList(q)
       IN req' = [req EXCEPT ![r] =
                    IF q.it < Len(list)
                    THEN [q EXCEPT !.it = q.it + 1,
                                   !.matches = Append(q.matches,
                                                      Match(list[q.it + 1], q.query_vec))]
                    ELSE [q EXCEPT !.pc = "Responding",
                                   !.src = NoIterator, !.it = 0,
                                   !.results = SliceFirst(SortMatches(<<>>, q.matches),
                                                          SearchLimit),
                                   !.stages = Append(q.stages, "rank")]]
    /\ UNCHANGED <<tokenizer, ckVars, chunks_store, sqVars, app, raced, db_objects>>

\* return SearchResponse(results=results): the 200 response is sent and the
\* locals of the call are gone.
Respond(r) ==
    /\ req[r].pc = "Responding"
    /\ req' = [req EXCEPT ![r] =
                 [@ EXCEPT !.pc = "Responded", !.status = 200, !.query_vec = <<>>,
                           !.matches = <<>>, !.results = <<>>,
                           !.stages = Append(@, "respond")]]
    /\ UNCHANGED <<tokenizer, ckVars, chunks_store, sqVars, app, raced, db_objects>>

\* ------------------------------------------------ main.py: index, search
RECURSIVE DbObjects(_, _)
DbObjects(url, chunks) ==
    IF chunks = <<>> THEN <<>>
    ELSE <<StoredItem(url, Head(chunks))>> \o DbObjects(url, Tail(chunks))

\* index_chunks of main.py: every chunk is added to the collection in one batch.
DbIndex(r) ==
    /\ req[r].pc = "Indexing" /\ app = "weaviate"
    /\ db_objects' = db_objects \o DbObjects(req[r].url, req[r].chunks)
    /\ req' = [req EXCEPT ![r] =
                 [@ EXCEPT !.pc = "QueryEmbedding", !.stages = Append(@, "index")]]
    /\ UNCHANGED <<tokenizer, ckVars, chunks_store, sqVars, app, raced>>

\* search_chunks of main.py: near_vector returns the limit nearest objects by
\* cosine distance; score = 1 - distance is their cosine similarity.
DbSearch(r) ==
    /\ req[r].pc = "QueryEmbedding" /\ app = "weaviate"
    /\ \E w \in WordIds :
          LET query_vector == encode(<<w>>) IN
          req' = [req EXCEPT ![r] =
                    [@ EXCEPT !.pc = "Responding",
                              !.query_vec = query_vector,
                              !.results = SliceFirst(
                                  SortMatches(<<>>, Matches(db_objects, query_vector)),
                                  SearchLimit),
                              !.stages = @ \o <<"embed_query", "rank">>]]
    /\ UNCHANGED <<tokenizer, ckVars, chunks_store, sqVars, app, raced, db_objects>>

\* ------------------------------------------------ specifications of the server
\* The server after start-up: empty store, no request yet.  The tokenizer gives
\* word 1 one token and every other word HeavyCost tokens.
InitServer(apps) ==
    /\ tokenizer = [w \in WordIds |-> IF w = 1 THEN 1 ELSE HeavyCost]
    /\ ChunkIdle
    /\ SearchIdle
    /\ app \in apps
    /\ chunks_store = <<>>
    /\ req = [r \in Requests |-> NewRequest]
    /\ raced = FALSE
    /\ db_objects = <<>>

\* the steps of search() that touch no store
LocalStep(r) ==
    \/ Normalize(r)
    \/ Chunk(r)
    \/ Respond(r)

\* the steps of index_chunks and search_chunks of main_standalone.py
StoreStep(r) ==
    \/ IndexBegin(r)
    \/ FilterStep(r)
    \/ Rebind(r)
    \/ AppendStep(r)
    \/ SearchEntry(r)
    \/ EmbedQuery(r)
    \/ ScanStep(r)

\* the steps of index_chunks and search_chunks of main.py
DbStep(r) ==
    \/ DbIndex(r)
    \/ DbSearch(r)

\* Requests served one at a time, by either server; encode may raise.
InitSeq == InitServer(Apps)

NextSeq ==
    \E r \in Requests :
        \/ Fetch(r, 1)
        \/ LocalStep(r)
        \/ StoreStep(r)
        \/ EncodeRaises(r)
        \/ DbStep(r)

SpecSeq == InitSeq /\ [][NextSeq]_vars

\* The in-process server with its thread pool: a burst of MaxInFlight requests
\* that run search() at the same time, their steps interleaved.
InitConc == InitServer({"standalone"})

NextConc ==
    \E r \in 1..MaxInFlight :
        \/ Fetch(r, MaxInFlight)
        \/ LocalStep(r)
        \/ StoreStep(r)

SpecConc == InitConc /\ [][NextConc]_vars

\* ------------------------------------------------ claims on chunk_text
ck_words == split(ck_text)

\* the last n words of s (n <= Len(s)), the empty sequence for n = 0
Trailing(s, n) == SubSeq(s, Len(s) - n + 1, Len(s))

\* chunks k.. can be laid over words as contiguous runs, the previous chunk
\* having ended at word prevEnd: each starts at most one word after prevEnd,
\* ends strictly later, and the last one ends at the last word.
RECURSIVE CoversFrom(_, _, _, _)
CoversFrom(words, chunks, k, prevEnd) ==
    IF k > Len(chunks) THEN prevEnd = Len(words)
    ELSE \E s \in 1..(prevEnd + 1) :
            LET e == s + Len(chunks[k]) - 1 IN
            /\ k = 1 => s = 1
            /\ e > prevEnd
            /\ e <= Len(words)
            /\ SubSeq(words, s, e) = chunks[k]
            /\ CoversFrom(words, chunks, k + 1, e)

\* C3: for max_tokens >= 1 the chunks returned by chunk_text cover the input
\* words in order with no word skipped: contiguous runs, the first starting at
\* the first word, the last ending at the last word, each ending strictly later
\* than the previous one and starting no later than the word after its end.
C3_Coverage ==
    (ck_state = "returned" /\ ck_max_tokens >= 1)
        => CoversFrom(ck_words, ck_chunks, 1, 0)

\* C3 witness: a call that returned three or more chunks, sharing words.
C3_Witness ==
    /\ ck_state = "returned" /\ ck_max_tokens >= 1 /\ ck_overlap >= 1
    /\ Len(ck_chunks) >= 3
    /\ \E k \in 1..(Len(ck_chunks) - 1) :
           /\ Len(ck_chunks[k]) > ck_overlap
           /\ SubSeq(ck_chunks[k + 1], 1, ck_overlap) = Trailing(ck_chunks[k], ck_overlap)

\* C4 (as claimed): whenever a chunk has at least overlap_words words, its last
\* overlap_words words are the first overlap_words words of the next chunk.
C4_OverlapAsClaimed ==
    (ck_state = "returned" /\ ck_max_tokens >= 1) =>
        \A k \in 1..(Len(ck_chunks) - 1) :
            Len(ck_chunks[k]) >= ck_overlap =>
                /\ Len(ck_chunks[k + 1]) >= ck_overlap
                /\ SubSeq(ck_chunks[k + 1], 1, ck_overlap)
                       = Trailing(ck_chunks[k], ck_overlap)

\* C6 (as claimed): for max_tokens >= 1 and overlap_words >= 1 every returned
\* chunk of two or more words costs at most max_tokens tokens.
C6_BudgetAsClaimed ==
    (ck_state = "returned" /\ ck_max_tokens >= 1 /\ ck_overlap >= 1) =>
        \A k \in 1..Len(ck_chunks) :
            Len(ck_chunks[k]) >= 2 => TokenSum(ck_chunks[k]) <= ck_max_tokens

\* C10 (as claimed): a word costing more than max_tokens is returned as a chunk
\* of its own, with no overlap words before it and no words after it.
C10_OwnChunkAsClaimed ==
    (ck_state = "returned" /\ ck_max_tokens >= 1 /\ ck_overlap >= 1) =>
        \A i \in 1..Len(ck_words) :
            tokenizer[ck_words[i]] > ck_max_tokens =>
                \E k \in 1..Len(ck_chunks) : ck_chunks[k] = <<ck_words[i]>>

\* C11 (as claimed): chunk_text called with max_tokens <= 0 returns no chunk,
\* whatever the text and overlap_words, in main_standalone.py and in main.py.
C11_EmptyForNonPositiveAsClaimed ==
    /\ (ck_state = "returned" /\ ck_max_tokens <= 0) => ck_chunks = <<>>
    /\ (ck_db_state = "returned" /\ ck_max_tokens <= 0) => ck_db_chunks = <<>>

\* C14: a text without words (empty, or whitespace only) gives no chunk, for
\* every max_tokens and overlap_words, in main_standalone.py and in main.py.
C14_NoWordsNoChunks ==
    ck_words = <<>> =>
        /\ ck_state = "returned" => ck_chunks = <<>>
        /\ ck_db_state = "returned" => ck_db_chunks = <<>>

\* C14 witness: both functions have returned on a text of whitespace only.
C14_Witness ==
    /\ ck_text # <<>> /\ ck_words = <<>> /\ ck_max_tokens >= 1
    /\ ck_state = "returned" /\ ck_db_state = "returned"
    /\ ck_chunks = <<>> /\ ck_db_chunks = <<>>

\* the loop state of chunk_text after the first i words of the call's text
LoopStateAt(i) ==
    ChunkLoop(ChunkInit, SubSeq(ck_words, 1, i), ck_max_tokens, ck_overlap)

\* C18 (as claimed): when the loop closes a chunk of fewer than overlap_words
\* words, the next candidate is all the words of the closed chunk followed by
\* the word being processed, and token_count is the token sum of that candidate.
C18_SeedAsClaimed ==
    (ck_state = "returned" /\ ck_max_tokens >= 1) =>
        \A i \in 1..Len(ck_words) :
            LET st == LoopStateAt(i - 1)
                nx == LoopStateAt(i)
            IN (Len(nx.chunks) > Len(st.chunks)
                    /\ Len(st.current_chunk) < ck_overlap) =>
                   /\ nx.current_chunk = Append(st.current_chunk, ck_words[i])
                   /\ nx.token_count = TokenSum(nx.current_chunk)

\* C20 (as claimed): with overlap_words = 0 and max_tokens >= 1 the chunk_text
\* of main_standalone.py returns the chunk list the chunk_text of main.py
\* returns on the same text and tokenizer.
C20_SameAsNonOverlappingAsClaimed ==
    (ck_state = "returned" /\ ck_db_state = "returned"
         /\ ck_overlap = 0 /\ ck_max_tokens >= 1)
        => ck_chunks = ck_db_chunks


\* ------------------------------------------------ claims on search_chunks
\* C9: search_chunks returns its results in non-increasing score order, returns
\* at most min(limit, store size) entries, and every returned entry scores at
\* least as high as every stored entry that was not returned.
C9_Ranking ==
    sq_state = "returned" =>
        LET all == Matches(chunks_store, sq_query_vec)
            n == Len(sq_results)
        IN /\ \A i \in 1..(n - 1) :
                  ~ScoreLess(sq_results[i].score, sq_results[i + 1].score)
           /\ n <= sq_limit /\ n <= Len(chunks_store)
           /\ \E I \in SUBSET (1..Len(all)) :
                  /\ Cardinality(I) = n
                  /\ \A i \in I :
                         Count(sq_results, all[i])
                             = Cardinality({j \in I : all[j] = all[i]})
                  /\ \A j \in (1..Len(all)) \ I : \A i \in 1..n :
                         ~ScoreLess(sq_results[i].score, all[j].score)

\* C9 witness: a search that had to reorder the store and cut it at limit.
C9_Witness ==
    /\ sq_state = "returned"
    /\ Len(chunks_store) = 3 /\ sq_limit = 2 /\ Len(sq_results) = 2
    /\ ScoreLess(Match(chunks_store[1], sq_query_vec).score,
                 Match(chunks_store[2], sq_query_vec).score)
    /\ ScoreLess(Match(chunks_store[2], sq_query_vec).score,
                 Match(chunks_store[3], sq_query_vec).score)
    /\ sq_results[1].content = chunks_store[3].content

\* the matches of seq whose score equals score, in the order of seq
TiesOf(seq, score) ==
    SelectSeq(seq, LAMBDA m : ~ScoreLess(m.score, score) /\ ~ScoreLess(score, m.score))

\* C15: the returned entries of one same score are, in the same order, the first
\* stored entries of that score: ties keep their storage order, and a tie cut
\* off by limit is stored after the ties that were returned.
C15_StableTies ==
    sq_state = "returned" =>
        \A i \in 1..Len(sq_results) :
            LET got == TiesOf(sq_results, sq_results[i].score)
                stored == TiesOf(Matches(chunks_store, sq_query_vec), sq_results[i].score)
            IN /\ Len(got) <= Len(stored)
               /\ got = SubSeq(stored, 1, Len(got))

\* C15 witness: two different stored chunks of equal score, stored before a
\* chunk of higher score, are returned after it in their storage order.
C15_Witness ==
    /\ sq_state = "returned" /\ Len(chunks_store) = 3 /\ Len(sq_results) = 3
    /\ chunks_store[1].content # chunks_store[2].content
    /\ LET all == Matches(chunks_store, sq_query_vec) IN
           /\ TiesOf(all, all[1].score) = <<all[1], all[2]>>
           /\ ScoreLess(all[1].score, all[3].score)
           /\ sq_results = <<all[3], all[1], all[2]>>

\* C16: search_chunks on an empty store returns the empty list and does not
\* raise, for every query and limit.
C16_EmptyStoreEmptyResult ==
    (sq_state # "call" /\ chunks_store = <<>>)
        => (sq_state = "returned" /\ sq_results = <<>>)

\* C16 witness: a search of an empty store with a positive limit has returned.
C16_Witness ==
    /\ sq_state = "returned" /\ chunks_store = <<>> /\ sq_limit >= 1
    /\ sq_results = <<>>

\* C17 (as claimed): every score search_chunks returns is a number, also when
\* the query vector or a stored vector has zero magnitude (nothing being cut
\* off by limit, so that every stored entry is returned).
C17_FallbackAsClaimed ==
    (sq_state = "returned" /\ Len(chunks_store) <= sq_limit) =>
        \A i \in 1..Len(sq_results) : sq_results[i].score.nn > 0


\* ------------------------------------------------ claims on the server
\* the contents of the items of list stored for url, in list order
RECURSIVE ContentsOf(_, _)
ContentsOf(list, url) ==
    IF list = <<>> THEN <<>>
    ELSE (IF Head(list).url = url THEN <<Head(list).content>> ELSE <<>>)
             \o ContentsOf(Tail(list), url)

\* the requests that have entered index_chunks for url
Indexers(url) ==
    {r \in Requests :
        /\ req[r].url = url
        /\ \/ req[r].pc \in IndexPcs \cup AfterIndexPcs
           \/ req[r].pc = "Failed" /\ req[r].status = 500}

Latest(S) == CHOOSE r \in S : \A p \in S : p <= r

\* no request after r has arrived yet
IsLastArrived(r) == \A p \in Requests : p > r => req[p].pc = "Fetching"

\* C1: requests being served one at a time by the in-process server, the store
\* holds for each URL exactly the chunk list of the most recent index_chunks
\* call for that URL that returned (same chunks, same order, none left over from
\* an earlier call), at every moment, also while another URL is being indexed;
\* a URL never indexed has no entry.
C1_ReplaceSemantics ==
    app = "standalone" =>
        \A u \in Urls :
            IF Indexers(u) = {} THEN ContentsOf(chunks_store, u) = <<>>
            ELSE req[Latest(Indexers(u))].pc \in AfterIndexPcs
                     => ContentsOf(chunks_store, u) = req[Latest(Indexers(u))].chunks

\* C1 witness: a URL indexed, another URL indexed, the first URL indexed again
\* with different chunks, and the last call has returned.
C1_Witness ==
    /\ app = "standalone"
    /\ req[1].url = req[3].url /\ req[2].url # req[1].url
    /\ req[1].pc = "Responded" /\ req[2].pc = "Responded" /\ req[3].pc = "Responded"
    /\ Len(req[1].chunks) = 2 /\ req[3].chunks # req[1].chunks
    /\ ContentsOf(chunks_store, req[3].url) = req[3].chunks
    /\ ContentsOf(chunks_store, req[2].url) = req[2].chunks

\* C5 (as claimed): when embedder.encode raises inside index_chunks, the store is
\* what it was when index_chunks was entered.
C5_AtomicAsClaimed ==
    \A r \in Requests :
        (app = "standalone" /\ req[r].pc = "Failed" /\ req[r].status = 500
             /\ IsLastArrived(r))
            => chunks_store = req[r].before

\* C7 (as claimed): whenever no index_chunks call for a URL is in progress, the
\* entries stored for that URL are the chunk list of one single index_chunks
\* call (or there are none).
C7_OneGenerationAsClaimed ==
    \A u \in Urls :
        (\A r \in Requests : req[r].url = u => req[r].pc \notin IndexPcs)
            => \/ ContentsOf(chunks_store, u) = <<>>
               \/ \E r \in Indexers(u) : ContentsOf(chunks_store, u) = req[r].chunks

\* C2 (as claimed): index_chunks calls never overlapping each other, the entries
\* a search_chunks scan has read for a URL whose indexing had returned before the
\* scan are the complete chunk list of one index_chunks call for that URL, never
\* an empty or partly inserted set.
C2_NoHalfUpdateAsClaimed ==
    \A r \in Requests :
        (req[r].pc = "Responding" /\ ~raced)
            => \A u \in req[r].done0 :
                   \E p \in Indexers(u) : ContentsOf(req[r].matches, u) = req[p].chunks

\* C8: a request whose fetch failed (timeout, HTTP error status, any other
\* error), whose page had no text or whose chunk list was empty has ended with
\* a 400 and has run neither index_chunks nor search_chunks; and, no other
\* request having been served since it arrived, both stores are what they were
\* when it arrived.
C8_FailFast ==
    \A r \in Requests :
        (req[r].pc = "Failed"
             /\ req[r].detail \in FetchErrors \cup {"no_text", "no_chunks"}) =>
            /\ req[r].status = 400
            /\ \A i \in 1..Len(req[r].stages) :
                   req[r].stages[i] \in {"fetch", "normalize", "chunk"}
            /\ IsLastArrived(r) => <<chunks_store, db_objects>> = req[r].store0

\* C8 witness: a fetch that timed out on a server whose store holds chunks.
C8_Witness ==
    \E r \in Requests :
        /\ req[r].pc = "Failed" /\ req[r].status = 400 /\ req[r].detail = "timeout"
        /\ IsLastArrived(r)
        /\ chunks_store # <<>>
        /\ ContentsOf(chunks_store, req[r].url) # <<>>

\* the stages of search(), in the order of its statements
AllStages == <<"fetch", "normalize", "chunk", "index", "embed_query", "rank", "respond">>

IsPrefix(s, t) == Len(s) <= Len(t) /\ s = SubSeq(t, 1, Len(s))

\* the stages a request has run and the way it has ended
StagesInOrder ==
    \A r \in Requests :
        /\ IsPrefix(req[r].stages, AllStages)
        /\ req[r].status # 0 <=> req[r].pc \in {"Responded", "Failed"}
        /\ req[r].pc = "Responded" =>
               req[r].status = 200 /\ req[r].stages = AllStages
        /\ req[r].pc = "Failed" =>
               /\ req[r].status \in {400, 500}
               /\ req[r].results = <<>>
               /\ Len(req[r].stages) < Len(AllStages)

\* a request that has ended takes no further step
EndedIsFinal ==
    \A r \in Requests :
        req[r].pc \in {"Responded", "Failed"} => req'[r] = req[r]

\* C12: requests being served one at a time, each request runs the stages fetch,
\* normalize, chunk, index, embed query, rank, respond in that order and each at
\* most once; it ends either with the 200 response, after all seven stages, or
\* with one failure (400 or 500) that carries no results and was raised before
\* the respond stage; and once it has ended it does nothing more.
C12_OnePassOneOutcome == []StagesInOrder /\ [][EndedIsFinal]_vars

\* C12 witness: one request has been answered after all its stages, another has
\* failed after indexing had begun, a third has failed before indexing.
C12_Witness ==
    \E r, p, q \in Requests :
        /\ req[r].pc = "Responded" /\ req[r].stages = AllStages
        /\ req[p].pc = "Failed" /\ req[p].status = 500
        /\ req[p].stages = <<"fetch", "normalize", "chunk", "index">>
        /\ req[q].pc = "Failed" /\ req[q].status = 400

\* C13 (as claimed): in main.py the collection holds for each URL exactly the
\* chunk list of the most recent index_chunks call for that URL.
C13_DbReplaceAsClaimed ==
    app = "weaviate" =>
        \A u \in Urls :
            Indexers(u) # {} =>
                (req[Latest(Indexers(u))].pc \in AfterIndexPcs
                     => ContentsOf(db_objects, u) = req[Latest(Indexers(u))].chunks)

\* C19 (as claimed): once no request is being served, a URL that one request
\* has indexed, and no other request has, holds in the store exactly the chunk
\* list of that request, also when the requests ran at the same time.
C19_NoLostUpdateAsClaimed ==
    (\A r \in Requests : ~InFlight(r)) =>
        \A r \in Requests :
            (req[r].pc = "Responded"
                 /\ \A p \in Requests \ {r} : req[p].url # req[r].url)
                => ContentsOf(chunks_store, req[r].url) = req[r].chunks

=============================================================================
